---- MODULE Spec2Model ----
(***************************************************************************)
(* A model of build.py of rorio: main() turns the records of a ROR dump    *)
(* into an OWL ontology document.                                          *)
(*                                                                         *)
(* Python strings are TLA+ strings (TLC gives Len, SubSeq and \o on them), *)
(* so URIs, CURIEs and the whitespace edit are computed character by       *)
(* character.  A Python list or a dict in insertion order is a sequence.   *)
(* The ontology object has two lists: ontology.axioms, which               *)
(* ontology.declarations(...) appends to, and ontology.annotations, which  *)
(* holds the header and every assertion main() appends.                    *)
(***************************************************************************)
EXTENDS Integers, Sequences, FiniteSets, TLC

(***************************************************************************)
(* Namespaces and constants, build.py lines 33-69.                         *)
(***************************************************************************)
ORCID == "https://orcid.org/"
ROR == "https://ror.org/"
GEONAMES == "https://www.geonames.org/"
BFO == "http://purl.obolibrary.org/obo/BFO_"
ENVO == "http://purl.obolibrary.org/obo/ENVO_"
OBI == "http://purl.obolibrary.org/obo/OBI_"
RO == "http://purl.obolibrary.org/obo/RO_"
OMO == "http://purl.obolibrary.org/obo/OMO_"
OIO == "http://www.geneontology.org/formats/oboInOwl#"

RDFS_label == "http://www.w3.org/2000/01/rdf-schema#label"
RDFS_seeAlso == "http://www.w3.org/2000/01/rdf-schema#seeAlso"
OWL_versionInfo == "http://www.w3.org/2002/07/owl#versionInfo"
DCTERMS_title == "http://purl.org/dc/terms/title"
DCTERMS_creator == "http://purl.org/dc/terms/creator"
DCTERMS_license == "http://purl.org/dc/terms/license"
DCTERMS_source == "http://purl.org/dc/terms/source"

CITY_CLASS == ENVO \o "00000856"
ORG_CLASS == OBI \o "0000245"
LOCATED_IN == RO \o "0001025"
PART_OF == BFO \o "0000050"
HAS_PART == BFO \o "0000051"
SUCCESSOR == BFO \o "0000063"
PREDECESSOR == BFO \o "0000062"
CHARLIE == ORCID \o "0000-0003-4423-4370"
HasExactSynonym == OIO \o "hasExactSynonym"
HasDbXref == OIO \o "hasDbXref"
SynonymType == OIO \o "SynonymType"
AcronymType == OMO \o "0003000"

\* RMAP as the list of its items, in the dict's insertion order.
RMAP_ITEMS ==
    << <<"Related", RDFS_seeAlso>>,
       <<"Child", HAS_PART>>,
       <<"Parent", PART_OF>>,
       <<"Predecessor", PREDECESSOR>>,
       <<"Successor", SUCCESSOR>> >>

RMAP_KEYS == {RMAP_ITEMS[k][1] : k \in DOMAIN RMAP_ITEMS}

\* RMAP[label], for a label among the keys.
RMAP(label) ==
    LET k == CHOOSE j \in DOMAIN RMAP_ITEMS : RMAP_ITEMS[j][1] = label
    IN  RMAP_ITEMS[k][2]

NAME_REMAPPING_ITEMS ==
    << <<"'s-Hertogenbosch", "Den Bosch">>,
       <<"'s Heeren Loo", "s Heeren Loo">>,
       <<"'s-Heerenberg", "s-Heerenberg">>,
       <<"Institut Virion\\Serion", "Institut Virion/Serion">>,
       <<"Hematology\\Oncology Clinic", "Hematology/Oncology Clinic">> >>

\* NAME_REMAPPING.get(name, name)
Remap(name) ==
    IF \E j \in DOMAIN NAME_REMAPPING_ITEMS : NAME_REMAPPING_ITEMS[j][1] = name
    THEN LET k == CHOOSE j \in DOMAIN NAME_REMAPPING_ITEMS :
                      NAME_REMAPPING_ITEMS[j][1] = name
         IN  NAME_REMAPPING_ITEMS[k][2]
    ELSE name

(***************************************************************************)
(* The libraries main() calls.                                             *)
(***************************************************************************)
\* The values whose Literal/assertion construction raises.  Which values do
\* is decided inside rdflib and funowl; the handlers of main() name the two
\* exception classes, and one sample value stands for each.
RaisesAssertionError == {"Unencodable \\ Name", "Unencodable \\ City", "T\\U"}
RaisesTypeError == {"<null name>", "<null city>", "<null alias>"}

\* What constructing an assertion around Literal(text) raises.
LiteralError(text) ==
    IF text \in RaisesAssertionError THEN "AssertionError"
    ELSE IF text \in RaisesTypeError THEN "TypeError"
    ELSE "none"

\* A sample of the prefixes bioregistry resolves, with their normal forms.
BIOREGISTRY_ITEMS ==
    << <<"ISNI", "isni">>,
       <<"GRID", "grid">>,
       <<"Wikidata", "wikidata">>,
       <<"FundRef", "funderregistry">> >>

None == "None"

\* bioregistry.normalize_prefix(prefix)
normalize_prefix(prefix) ==
    IF \E j \in DOMAIN BIOREGISTRY_ITEMS : BIOREGISTRY_ITEMS[j][1] = prefix
    THEN LET k == CHOOSE j \in DOMAIN BIOREGISTRY_ITEMS :
                      BIOREGISTRY_ITEMS[j][1] = prefix
         IN  BIOREGISTRY_ITEMS[k][2]
    ELSE None

\* bioregistry.curie_to_str(prefix, identifier)
curie_to_str(prefix, identifier) == prefix \o ":" \o identifier

\* str.replace(old, "") for a one-character old: every occurrence is dropped.
RECURSIVE Replace(_, _)
\* The mutant of Replace: the string is passed through unedited.
ReplaceNothing(s, old) == s

Replace(s, old) ==
    IF Len(s) = 0 THEN ""
    ELSE IF SubSeq(s, 1, 1) = old
         THEN Replace(SubSeq(s, 2, Len(s)), old)
         ELSE SubSeq(s, 1, 1) \o Replace(SubSeq(s, 2, Len(s)), old)

\* str.removeprefix(prefix)
RemovePrefix(s, prefix) ==
    IF Len(s) >= Len(prefix) /\ SubSeq(s, 1, Len(prefix)) = prefix
    THEN SubSeq(s, Len(prefix) + 1, Len(s))
    ELSE s

\* Iterating a Python string yields its characters.
Chars(s) == [k \in 1..Len(s) |-> SubSeq(s, k, k)]

(***************************************************************************)
(* The axioms and annotations main() constructs.                           *)
(***************************************************************************)
Annotation(property, value) ==
    [ax |-> "Annotation", property |-> property, value |-> value]

AnnotationAssertion(property, subject, value, anns) ==
    [ax |-> "AnnotationAssertion", property |-> property, subject |-> subject,
     value |-> value, annotations |-> anns]

ClassAssertion(class, individual) ==
    [ax |-> "ClassAssertion", class |-> class, individual |-> individual]

ObjectPropertyAssertion(property, subject, object) ==
    [ax |-> "ObjectPropertyAssertion", property |-> property,
     subject |-> subject, object |-> object]

Declaration(kind, iri) == [ax |-> "Declaration", kind |-> kind, iri |-> iri]

Term(text, luid, entry_name, status) ==
    [text |-> text, db |-> "ror", id |-> luid, entry_name |-> entry_name,
     status |-> status, source |-> "ror"]

(***************************************************************************)
(* The state of main().                                                    *)
(***************************************************************************)
VARIABLES
    records,                  \* the record list get_latest() returned
    pc,                       \* where main() is
    i,                        \* the index in records of the loop's record
    axioms,                   \* ontology.axioms
    annotations,              \* ontology.annotations
    terms,                    \* the Gilda terms
    unhandled_xref_prefixes,  \* the prefixes already reported
    log,                      \* the lines written with tqdm.write
    raised,                   \* the exception that left main(), or "none"
    ofn,                      \* the content of rorio.ofn, or Absent
    gilda                     \* the content of the Gilda index, or Absent

vars == <<records, pc, i, axioms, annotations, terms,
          unhandled_xref_prefixes, log, raised, ofn, gilda>>

Absent == <<"absent">>

(***************************************************************************)
(* Initialisation of the ontology, lines 99-128.                           *)
(***************************************************************************)
\* What get_latest() returned beside the records, line 96.
version == "1.0"
source_uri == "https://zenodo.org/api/records/1/files/ror-data.zip/content"

HeaderAnnotations ==
    << Annotation(DCTERMS_title, "ROR in OWL"),
       Annotation(DCTERMS_creator, CHARLIE),
       Annotation(DCTERMS_license,
                  "https://creativecommons.org/publicdomain/zero/1.0/"),
       Annotation(RDFS_seeAlso, "https://github.com/cthoyt/rorio"),
       Annotation(OWL_versionInfo, version),
       Annotation(DCTERMS_source, source_uri) >>

VocabularyDeclarations ==
    << Declaration("Class", CITY_CLASS),
       Declaration("Class", ORG_CLASS),
       Declaration("ObjectProperty", LOCATED_IN) >>
    \o [k \in DOMAIN RMAP_ITEMS |->
            Declaration("ObjectProperty", RMAP_ITEMS[k][2])]

VocabularyLabels ==
    << AnnotationAssertion(RDFS_label, CITY_CLASS, "city", <<>>),
       AnnotationAssertion(RDFS_label, ORG_CLASS, "organization", <<>>),
       AnnotationAssertion(RDFS_label, LOCATED_IN, "located in", <<>>),
       AnnotationAssertion(RDFS_label, PART_OF, "part of", <<>>),
       AnnotationAssertion(RDFS_label, HAS_PART, "has part", <<>>),
       AnnotationAssertion(RDFS_label, SUCCESSOR, "precedes", <<>>),
       AnnotationAssertion(RDFS_label, PREDECESSOR, "preceded by", <<>>),
       AnnotationAssertion(RDFS_label, RDFS_seeAlso, "see also", <<>>) >>

\* ontology.annotations.extend([...]) of lines 117-128.
\* The mutant: the list is assigned, not extended.
OnlyVocabularyLabels(current) == VocabularyLabels

WithVocabularyLabels(current) == current \o VocabularyLabels

(***************************************************************************)
(* The body of the record loop, lines 152-273, as operators on the part of *)
(* the state the body changes:                                             *)
(*   st = [axioms, annotations, terms, log, unhandled, flow]               *)
(* flow is "next" while the body runs on, "continue" once the body has     *)
(* left for the next record, and the name of the exception once one has    *)
(* left the body uncaught.  ctx = [uri, luid, name] are the body's locals. *)
(***************************************************************************)

\* The label and class assertion of an organization, lines 160-167.
\* The mutant: the class assertion is left out.
OrganizationAssertionsNoClass(uri, name) ==
    << AnnotationAssertion(RDFS_label, uri, name, <<>>) >>

OrganizationAssertions(uri, name) ==
    << AnnotationAssertion(RDFS_label, uri, name, <<>>),
       ClassAssertion(ORG_CLASS, uri) >>

\* The handler of lines 169-171.
\* The mutant: the failure is reported and the body runs on.
OnOrganizationFailureRunOn(st, ctx) ==
    [st EXCEPT !.log = Append(@, "failed on organization: " \o ctx.name
                                  \o " (" \o ctx.uri \o ")")]

OnOrganizationFailure(st, ctx) ==
    [st EXCEPT !.log = Append(@, "failed on organization: " \o ctx.name
                                  \o " (" \o ctx.uri \o ")"),
               !.flow = "continue"]

\* Lines 157-172.
OrganizationStep(st, ctx) ==
    LET declared == [st EXCEPT !.axioms =
                        Append(@, Declaration("NamedIndividual", ctx.uri))]
    IN  IF LiteralError(ctx.name) \in {"TypeError", "AssertionError"}
        THEN OnOrganizationFailure(declared, ctx)
        ELSE [declared EXCEPT
                !.annotations = @ \o OrganizationAssertions(ctx.uri, ctx.name),
                !.terms = Append(@, Term(ctx.name, ctx.luid, ctx.name, "name"))]

\* The three assertions of a city, lines 184-198.
CityAssertions(uri, city_uri, city_name) ==
    << ObjectPropertyAssertion(LOCATED_IN, uri, city_uri),
       AnnotationAssertion(RDFS_label, city_uri, city_name, <<>>),
       ClassAssertion(CITY_CLASS, city_uri) >>

\* The handler of lines 200-202.
OnCityFailure(st, ctx, city_name, city_uri) ==
    [st EXCEPT !.log = Append(@, "[" \o ctx.uri \o "] failed on city: "
                                  \o city_name \o " (" \o city_uri \o ")")]

\* One pass of the loop of lines 174-202.
AddressStep(st, ctx, address) ==
    IF "geonames_city" \notin DOMAIN address
    THEN st
    ELSE LET city == address.geonames_city
             city_uri == GEONAMES \o ToString(city.id)
             city_name == Remap(city.city)
             declared == [st EXCEPT !.axioms =
                            Append(@, Declaration("NamedIndividual", city_uri))]
         IN  CASE LiteralError(city_name) = "AssertionError" ->
                    OnCityFailure(declared, ctx, city_name, city_uri)
               [] LiteralError(city_name) = "TypeError" ->
                    [declared EXCEPT !.flow = "TypeError"]
               [] OTHER ->
                    [declared EXCEPT !.annotations =
                        @ \o CityAssertions(ctx.uri, city_uri, city_name)]

RECURSIVE Addresses(_, _, _)
Addresses(st, ctx, addresses) ==
    IF addresses = <<>> \/ st.flow # "next"
    THEN st
    ELSE Addresses(AddressStep(st, ctx, Head(addresses)), ctx, Tail(addresses))

\* One pass of the loop of lines 204-211.
\* The mutant: a label RMAP lacks is skipped.
RelationshipStepSkipUnknown(st, ctx, relationship) ==
    IF relationship.type \notin RMAP_KEYS
    THEN st
    ELSE [st EXCEPT !.annotations =
            Append(@, AnnotationAssertion(RMAP(relationship.type), ctx.uri,
                                          relationship.id, <<>>))]

RelationshipStep(st, ctx, relationship) ==
    IF relationship.type \notin RMAP_KEYS
    THEN [st EXCEPT !.flow = "KeyError"]
    ELSE [st EXCEPT !.annotations =
            Append(@, AnnotationAssertion(RMAP(relationship.type), ctx.uri,
                                          relationship.id, <<>>))]

RECURSIVE Relationships(_, _, _)
Relationships(st, ctx, relationships) ==
    IF relationships = <<>> \/ st.flow # "next"
    THEN st
    ELSE Relationships(RelationshipStep(st, ctx, Head(relationships)), ctx,
                       Tail(relationships))

\* The handler of lines 220-224.
\* The mutant: the handler leaves the record.
OnSynonymFailureLeave(st, ctx, synonym) ==
    [st EXCEPT !.log = Append(@, "bad synonym for " \o ctx.name \o " ("
                                  \o ctx.uri \o "): " \o synonym),
               !.flow = "continue"]

OnSynonymFailure(st, ctx, synonym) ==
    [st EXCEPT !.log = Append(@, "bad synonym for " \o ctx.name \o " ("
                                  \o ctx.uri \o "): " \o synonym)]

\* One pass of the loop of lines 213-225.
SynonymStep(st, ctx, synonym) ==
    IF LiteralError(synonym) \in {"AssertionError", "TypeError"}
    THEN OnSynonymFailure(st, ctx, synonym)
    ELSE [st EXCEPT
            !.annotations = Append(@, AnnotationAssertion(HasExactSynonym,
                                        ctx.uri, synonym, <<>>)),
            !.terms = Append(@, Term(synonym, ctx.luid, ctx.name, "synonym"))]

RECURSIVE Synonyms(_, _, _)
Synonyms(st, ctx, aliases) ==
    IF aliases = <<>> \/ st.flow # "next"
    THEN st
    ELSE Synonyms(SynonymStep(st, ctx, Head(aliases)), ctx, Tail(aliases))

\* One pass of the loop of lines 227-245.
AcronymStep(st, ctx, acronym) ==
    IF LiteralError(acronym) \in {"AssertionError", "TypeError"}
    THEN [st EXCEPT !.log = Append(@, "bad acronym for " \o ctx.name \o " ("
                                       \o ctx.uri \o "): " \o acronym)]
    ELSE [st EXCEPT !.annotations =
            Append(@, AnnotationAssertion(HasExactSynonym, ctx.uri, acronym,
                        << Annotation(SynonymType, AcronymType) >>))]

RECURSIVE Acronyms(_, _, _)
Acronyms(st, ctx, acronyms) ==
    IF acronyms = <<>> \/ st.flow # "next"
    THEN st
    ELSE Acronyms(AcronymStep(st, ctx, Head(acronyms)), ctx, Tail(acronyms))

\* unhandled_xref_prefixes.add(prefix), line 260.
\* The mutant: the prefix is not remembered.
RememberPrefixForgets(unhandled, prefix) == unhandled

RememberPrefix(unhandled, prefix) == unhandled \cup {prefix}

\* Lines 255-260: the report of a prefix met for the first time.
ReportUnhandled(st, ctx, prefix, xref_data) ==
    LET values == IF xref_data.all_is_str THEN Chars(xref_data.all)
                  ELSE xref_data.all
    IN  [st EXCEPT
            !.log = Append(@, "Unhandled prefix: " \o prefix \o " in "
                               \o ctx.name \o " (" \o ctx.uri \o "). Values:")
                    \o [k \in DOMAIN values |-> "- " \o values[k]],
            !.unhandled = RememberPrefix(@, prefix)]

\* Lines 263-265: a bare string stands for the list holding it.
\* The mutant: the isinstance test is missing, so a string is iterated.
IdentifiersUnwrapped(xref_data) ==
    IF xref_data.all_is_str THEN Chars(xref_data.all) ELSE xref_data.all

Identifiers(xref_data) ==
    IF xref_data.all_is_str THEN << xref_data.all >> ELSE xref_data.all

\* Lines 266-273.
XrefAssertions(ctx, norm_prefix, identifiers) ==
    [k \in DOMAIN identifiers |->
        AnnotationAssertion(HasDbXref, ctx.uri,
            curie_to_str(norm_prefix, Replace(identifiers[k], " ")), <<>>)]

\* One pass of the loop of lines 247-273; item = <<prefix, xref_data>>.
XrefStep(st, ctx, item) ==
    LET prefix == item[1]
        xref_data == item[2]
        norm_prefix == normalize_prefix(prefix)
    IN  IF prefix = "OrgRef" THEN st
        ELSE IF norm_prefix = None
        THEN IF prefix \notin st.unhandled
             THEN ReportUnhandled(st, ctx, prefix, xref_data)
             ELSE st
        ELSE [st EXCEPT !.annotations =
                @ \o XrefAssertions(ctx, norm_prefix, Identifiers(xref_data))]

RECURSIVE Xrefs(_, _, _)
Xrefs(st, ctx, external_ids) ==
    IF external_ids = <<>> \/ st.flow # "next"
    THEN st
    ELSE Xrefs(XrefStep(st, ctx, Head(external_ids)), ctx, Tail(external_ids))

\* The whole body, lines 152-273.
RecordBody(st, record) ==
    LET ctx == [uri |-> record.id,
                luid |-> RemovePrefix(record.id, ROR),
                name |-> Remap(record.name)]
        s1 == OrganizationStep(st, ctx)
        s2 == Addresses(s1, ctx, record.addresses)
        s3 == Relationships(s2, ctx, record.relationships)
        s4 == Synonyms(s3, ctx, record.aliases)
        s5 == Acronyms(s4, ctx, record.acronyms)
    IN  Xrefs(s5, ctx, record.external_ids)

(***************************************************************************)
(* The record lists the model runs main() on.  A record has every key the  *)
(* body reads; an address may lack "geonames_city"; external_ids is the    *)
(* list of the dict's items, and xref_data.all_is_str tells whether "all"  *)
(* is a bare string or a list of strings.                                  *)
(***************************************************************************)
MaxRecords == 2

City(id, name) == [geonames_city |-> [id |-> id, city |-> name]]
Rel(type, id) == [type |-> type, id |-> id]
IdList(ids) == [all |-> ids, all_is_str |-> FALSE]
IdStr(id) == [all |-> id, all_is_str |-> TRUE]

FirstId == ROR \o "0abc1def2"
Ids == {FirstId, ROR \o "05xyz9k33"}

BaseName == "Test University"
Names == {BaseName, "Institut Virion\\Serion", "Unencodable \\ Name",
          "<null name>"}

BaseAddresses == << City(123, "Testville") >>
AddressLists ==
    { BaseAddresses,
      << [line |-> "1 Main Street"], City(2747351, "'s-Hertogenbosch") >>,
      << City(7, "Unencodable \\ City"), City(123, "Testville") >>,
      << City(9, "<null city>"), City(123, "Testville") >> }

BaseRelationships ==
    << Rel("Child", ROR \o "05xyz9k33"), Rel("Related", ROR \o "0zzz" ) >>
RelationshipLists ==
    { BaseRelationships,
      << Rel("Predecessor", ROR \o "0abc1def2") >>,
      << Rel("Parent", ROR \o "0zzz"), Rel("Sibling", ROR \o "05xyz9k33"),
         Rel("Successor", ROR \o "0zzz") >> }

BaseAliases == << "TU" >>
AliasLists ==
    { BaseAliases, << >>, << "T\\U", "TU", "<null alias>", "TU" >> }

BaseAcronyms == << "T.U." >>
AcronymLists == { BaseAcronyms, << "T\\U", "TUN" >> }

BaseExternalIds == << <<"ISNI", IdStr("0000 0001 2345 6789")>> >>
ExternalIdLists ==
    { BaseExternalIds,
      << <<"GRID", IdList(<<"grid.1", "grid.1">>)>>,
         <<"OrgRef", IdList(<<"123">>)>>,
         <<"Wikidata", IdList(<<"Q 1", "Q2">>)>> >>,
      << <<"FooBarBaz", IdList(<<"X1", "X2">>)>>,
         <<"ISNI", IdList(<<"0000\t0001">>)>> >>,
      << <<"FooBarBaz", IdStr("Y9")>>,
         <<"CNRS", IdList(<<"c1">>)>>,
         <<"FundRef", IdStr("50 11")>> >> }

AllRecords ==
    [id : Ids, name : Names, addresses : AddressLists,
     relationships : RelationshipLists, aliases : AliasLists,
     acronyms : AcronymLists, external_ids : ExternalIdLists]

\* How many fields of a record differ from the base record's.
Deviations(r) ==
    (IF r.name = BaseName THEN 0 ELSE 1)
    + (IF r.addresses = BaseAddresses THEN 0 ELSE 1)
    + (IF r.relationships = BaseRelationships THEN 0 ELSE 1)
    + (IF r.aliases = BaseAliases THEN 0 ELSE 1)
    + (IF r.acronyms = BaseAcronyms THEN 0 ELSE 1)
    + (IF r.external_ids = BaseExternalIds THEN 0 ELSE 1)

\* The records of a run.  Under the first id: the base record with at most
\* one field changed, and the record that has an unencodable name together
\* with a city, a relationship or an external identifier list the body
\* would not pass.  Under the second id: the base record with at most the
\* name or the external identifiers changed.
RecordPool ==
    { r \in AllRecords :
        \/ r.id = FirstId /\ Deviations(r) <= 1
        \/ /\ r.id = FirstId
           /\ r.name = "Unencodable \\ Name"
           /\ Deviations(r) = 2
           /\ r.aliases = BaseAliases
           /\ r.acronyms = BaseAcronyms
           /\ r.addresses \in {BaseAddresses,
                               << City(9, "<null city>"), City(123, "Testville") >>}
        \/ /\ Deviations(r) <= 1
           /\ r.addresses = BaseAddresses
           /\ r.relationships = BaseRelationships
           /\ r.aliases = BaseAliases
           /\ r.acronyms = BaseAcronyms }

(***************************************************************************)
(* main(), lines 95-305.                                                   *)
(***************************************************************************)
Init ==
    /\ records \in UNION {[1..n -> RecordPool] : n \in 0..MaxRecords}
    /\ pc = "header"
    /\ i = 1
    /\ axioms = <<>>
    /\ annotations = <<>>
    /\ terms = <<>>
    /\ unhandled_xref_prefixes = {}
    /\ log = <<>>
    /\ raised = "none"
    /\ ofn = Absent
    /\ gilda = Absent

\* Lines 100-109.
SetHeader ==
    /\ pc = "header"
    /\ annotations' = annotations \o HeaderAnnotations
    /\ pc' = "declare"
    /\ UNCHANGED <<records, i, axioms, terms, unhandled_xref_prefixes, log,
                   raised, ofn, gilda>>

\* Lines 111-116.
DeclareVocabulary ==
    /\ pc = "declare"
    /\ axioms' = axioms \o VocabularyDeclarations
    /\ pc' = "labels"
    /\ UNCHANGED <<records, i, annotations, terms, unhandled_xref_prefixes,
                   log, raised, ofn, gilda>>

\* Lines 117-128.
LabelVocabulary ==
    /\ pc = "labels"
    /\ annotations' = WithVocabularyLabels(annotations)
    /\ pc' = "loop"
    /\ UNCHANGED <<records, i, axioms, terms, unhandled_xref_prefixes, log,
                   raised, ofn, gilda>>

\* One pass of the loop of lines 145-273.
ProcessRecord ==
    /\ pc = "loop"
    /\ i <= Len(records)
    /\ LET st == RecordBody([axioms |-> axioms, annotations |-> annotations,
                             terms |-> terms, log |-> log,
                             unhandled |-> unhandled_xref_prefixes,
                             flow |-> "next"], records[i])
       IN  /\ axioms' = st.axioms
           /\ annotations' = st.annotations
           /\ terms' = st.terms
           /\ log' = st.log
           /\ unhandled_xref_prefixes' = st.unhandled
           /\ IF st.flow \in {"next", "continue"}
              THEN i' = i + 1 /\ UNCHANGED <<pc, raised>>
              ELSE pc' = "aborted" /\ raised' = st.flow /\ UNCHANGED i
    /\ UNCHANGED <<records, ofn, gilda>>

\* Lines 275-288: the document is built and written.
Serialize ==
    /\ pc = "loop"
    /\ i > Len(records)
    /\ ofn' = [axioms |-> axioms, annotations |-> annotations]
    /\ pc' = "convert"
    /\ UNCHANGED <<records, i, axioms, annotations, terms,
                   unhandled_xref_prefixes, log, raised, gilda>>

\* Lines 290-305: the conversions of the written file and the Gilda index.
PostProcess ==
    /\ pc = "convert"
    /\ gilda' = terms
    /\ pc' = "done"
    /\ UNCHANGED <<records, i, axioms, annotations, terms,
                   unhandled_xref_prefixes, log, raised, ofn>>

Next ==
    \/ SetHeader
    \/ DeclareVocabulary
    \/ LabelVocabulary
    \/ ProcessRecord
    \/ Serialize
    \/ PostProcess

Spec == Init /\ [][Next]_vars

(***************************************************************************)
(* What the properties below speak of.                                     *)
(***************************************************************************)
\* The record the next pass of the loop works on, when InLoopBody.
rec == records[i]
InLoopBody == pc = "loop" /\ i <= Len(records)

\* The records whose pass has begun, and those whose pass has ended.
Started == IF pc = "aborted" THEN i ELSE i - 1
Completed == i - 1

\* What one step appends.
NewAnnotations == SubSeq(annotations', Len(annotations) + 1, Len(annotations'))
NewLog == SubSeq(log', Len(log) + 1, Len(log'))

Occurs(seq, x) == \E k \in DOMAIN seq : seq[k] = x
StartsWith(s, p) == Len(s) >= Len(p) /\ SubSeq(s, 1, Len(p)) = p
IsPrefixOf(s, t) == Len(s) <= Len(t) /\ SubSeq(t, 1, Len(s)) = s

FiveLabels == {"Related", "Child", "Parent", "Predecessor", "Successor"}
Whitespace == {" ", "\t", "\n", "\r", "\f"}

RECURSIVE Without(_, _)
\* s with every character of the set chars taken out.
Without(s, chars) ==
    IF Len(s) = 0 THEN ""
    ELSE (IF SubSeq(s, 1, 1) \in chars THEN "" ELSE SubSeq(s, 1, 1))
         \o Without(SubSeq(s, 2, Len(s)), chars)

HasNone(s, chars) == \A k \in 1..Len(s) : SubSeq(s, k, k) \notin chars

WellFormed(text) == LiteralError(text) = "none"
OrgConstructs(r) == WellFormed(Remap(r.name))
CitiesOf(r) ==
    {r.addresses[k].geonames_city :
        k \in {j \in DOMAIN r.addresses : "geonames_city" \in DOMAIN r.addresses[j]}}
CityRaisesTypeError(r) ==
    \E c \in CitiesOf(r) : LiteralError(Remap(c.city)) = "TypeError"
HasFailingCity(r) == \E c \in CitiesOf(r) : ~WellFormed(Remap(c.city))
RelsRecognized(r) ==
    \A k \in DOMAIN r.relationships : r.relationships[k].type \in FiveLabels
\* The pass over r gets as far as the relationship loop / the alias loop.
ReachesRelationships(r) == OrgConstructs(r) /\ ~CityRaisesTypeError(r)
ReachesSynonyms(r) == ReachesRelationships(r) /\ RelsRecognized(r)

IsXref(a) == a.ax = "AnnotationAssertion" /\ a.property = HasDbXref
IsSynonym(a) ==
    a.ax = "AnnotationAssertion" /\ a.property = HasExactSynonym
        /\ a.annotations = <<>>
IsAcronym(a) ==
    a.ax = "AnnotationAssertion" /\ a.property = HasExactSynonym
        /\ a.annotations # <<>>
Resolvable(prefix) ==
    \E j \in DOMAIN BIOREGISTRY_ITEMS : BIOREGISTRY_ITEMS[j][1] = prefix
PrefixesOf(r) == {r.external_ids[k][1] : k \in DOMAIN r.external_ids}
RawIdentifiers(xref_data) ==
    IF xref_data.all_is_str THEN <<xref_data.all>> ELSE xref_data.all

RECURSIVE Good(_)
\* The well-formed texts of a list, in order.
Good(texts) ==
    IF texts = <<>> THEN <<>>
    ELSE (IF WellFormed(Head(texts)) THEN <<Head(texts)>> ELSE <<>>)
         \o Good(Tail(texts))

RECURSIVE ExpectedXrefs(_, _)
\* One cross-reference per raw identifier of every resolvable scheme but
\* OrgRef, in the order of the schemes and of their identifiers.
ExpectedXrefs(uri, external_ids) ==
    IF external_ids = <<>> THEN <<>>
    ELSE LET prefix == Head(external_ids)[1]
             raw == RawIdentifiers(Head(external_ids)[2])
         IN  (IF Resolvable(prefix) /\ prefix # "OrgRef"
              THEN [k \in DOMAIN raw |->
                      AnnotationAssertion(HasDbXref, uri,
                          normalize_prefix(prefix) \o ":" \o Without(raw[k], {" "}),
                          <<>>)]
              ELSE <<>>)
             \o ExpectedXrefs(uri, Tail(external_ids))

CityUri(c) == GEONAMES \o ToString(c.id)
AboutCity(a, city_uri) ==
    \/ a.ax = "ObjectPropertyAssertion" /\ a.object = city_uri
    \/ a.ax = "AnnotationAssertion" /\ a.subject = city_uri
    \/ a.ax = "ClassAssertion" /\ a.individual = city_uri
SynonymFacts(uri, texts) ==
    [k \in DOMAIN texts |->
        AnnotationAssertion(HasExactSynonym, uri, texts[k], <<>>)]
AcronymFacts(uri, texts) ==
    [k \in DOMAIN texts |->
        AnnotationAssertion(HasExactSynonym, uri, texts[k],
                            << Annotation(SynonymType, AcronymType) >>)]
IsRelationship(a) ==
    a.ax = "AnnotationAssertion"
        /\ a.property \in {RDFS_seeAlso, HAS_PART, PART_OF, PREDECESSOR, SUCCESSOR}

\* The step the claim describes, from a state in which InLoopBody holds.
CityFailuresContained ==
    /\ raised' = "none" /\ pc' = "loop" /\ i' = i + 1
    /\ Occurs(NewAnnotations,
              AnnotationAssertion(RDFS_label, rec.id, Remap(rec.name), <<>>))
    /\ Occurs(NewAnnotations, ClassAssertion(ORG_CLASS, rec.id))
    /\ \A c \in CitiesOf(rec) :
          IF WellFormed(Remap(c.city))
          THEN /\ Occurs(NewAnnotations,
                         ObjectPropertyAssertion(LOCATED_IN, rec.id, CityUri(c)))
               /\ Occurs(NewAnnotations,
                         AnnotationAssertion(RDFS_label, CityUri(c),
                                             Remap(c.city), <<>>))
               /\ Occurs(NewAnnotations, ClassAssertion(CITY_CLASS, CityUri(c)))
          ELSE /\ Occurs(NewLog, "[" \o rec.id \o "] failed on city: "
                                  \o Remap(c.city) \o " (" \o CityUri(c) \o ")")
               /\ \A k \in DOMAIN NewAnnotations :
                      ~AboutCity(NewAnnotations[k], CityUri(c))
    /\ Len(SelectSeq(NewAnnotations, IsRelationship)) = Len(rec.relationships)
    /\ SelectSeq(NewAnnotations, IsSynonym) = SynonymFacts(rec.id, Good(rec.aliases))
    /\ SelectSeq(NewAnnotations, IsAcronym) = AcronymFacts(rec.id, Good(rec.acronyms))
    /\ SelectSeq(NewAnnotations, IsXref) = ExpectedXrefs(rec.id, rec.external_ids)

\* Every cross-reference in the document is, for a raw identifier of a
\* resolvable scheme of a record whose pass has begun, the normalized prefix,
\* ":" and the raw identifier less the characters of chars, and holds none
\* of them.
XrefsAreJoinsLess(chars) ==
    \A k \in DOMAIN annotations :
        IsXref(annotations[k]) =>
            /\ HasNone(annotations[k].value, chars)
            /\ \E n \in 1..Started : \E e \in DOMAIN records[n].external_ids :
                  LET prefix == records[n].external_ids[e][1]
                      raw == RawIdentifiers(records[n].external_ids[e][2])
                  IN  /\ Resolvable(prefix)
                      /\ annotations[k].subject = records[n].id
                      /\ \E j \in DOMAIN raw :
                            annotations[k].value =
                                normalize_prefix(prefix) \o ":" \o Without(raw[j], chars)

(***************************************************************************)
(* C1.  As claimed: whenever some record of the list carries a             *)
(* relationship whose type is not one of the five labels, the run never    *)
(* reaches the serialization step and writes no document.                  *)
(***************************************************************************)
C1_UnknownLabelAlwaysStopsRun ==
    (\E k \in DOMAIN records : ~RelsRecognized(records[k]))
        => (pc \notin {"convert", "done"} /\ ofn = Absent)

\* C1, amended: whenever a record whose label and class assertion can be
\* constructed carries a relationship whose type is not one of the five
\* labels, the loop never gets past that record, the run never reaches the
\* serialization step and no document is written.
C1_UnknownLabelStopsRunUnlessSkipped ==
    \A k \in DOMAIN records :
        (OrgConstructs(records[k]) /\ ~RelsRecognized(records[k]))
            => (i <= k /\ pc \notin {"convert", "done"} /\ ofn = Absent)

\* C1, witness.  The run has ended in the KeyError of the RMAP lookup.
C1_Witness ==
    /\ pc = "aborted"
    /\ raised = "KeyError"
    /\ OrgConstructs(records[i]) /\ ~RelsRecognized(records[i])
    /\ ofn = Absent

(***************************************************************************)
(* C2.  No cross-reference is emitted for a scheme the registry cannot     *)
(* resolve (every emitted one starts with a normal form of the registry),  *)
(* and such a prefix is reported once if a pass that got as far as the     *)
(* external identifiers met it, however many did, and not at all else.     *)
(***************************************************************************)
C2_UnresolvablePrefixOmittedAndReportedOnce ==
    /\ \A k \in DOMAIN annotations :
          IsXref(annotations[k]) =>
              \E j \in DOMAIN BIOREGISTRY_ITEMS :
                  StartsWith(annotations[k].value, BIOREGISTRY_ITEMS[j][2] \o ":")
    /\ \A n \in DOMAIN records : \A p \in PrefixesOf(records[n]) :
          (~Resolvable(p) /\ p # "OrgRef") =>
              LET Reports(line) ==
                      StartsWith(line, "Unhandled prefix: " \o p \o " in ")
                  met == \E k \in 1..Completed :
                            ReachesSynonyms(records[k]) /\ p \in PrefixesOf(records[k])
              IN  /\ Len(SelectSeq(log, Reports)) = IF met THEN 1 ELSE 0
                  /\ \A k \in DOMAIN annotations :
                        IsXref(annotations[k]) =>
                            /\ ~StartsWith(annotations[k].value, p \o ":")
                            /\ ~StartsWith(annotations[k].value, None \o ":")

\* C2, witness.  Two passes have met the same unresolvable prefix and the
\* run is over.
C2_Witness ==
    /\ pc = "done"
    /\ \E k1, k2 \in 1..Completed :
          /\ k1 < k2
          /\ ReachesSynonyms(records[k1]) /\ ReachesSynonyms(records[k2])
          /\ "FooBarBaz" \in PrefixesOf(records[k1]) \cap PrefixesOf(records[k2])
    /\ LET Reports(line) == StartsWith(line, "Unhandled prefix: FooBarBaz in ")
       IN  Len(SelectSeq(log, Reports)) = 1

(***************************************************************************)
(* C3.  A pass over a record whose label and class assertion cannot be     *)
(* constructed reports the organization's name and id, appends no          *)
(* assertion at all (the individual's declaration is the only addition to  *)
(* the ontology), and the loop goes on to the next record.                 *)
(***************************************************************************)
C3_OrganizationFailureSkipsRecord ==
    [][ (InLoopBody /\ ~OrgConstructs(rec)) =>
            /\ log' = Append(log, "failed on organization: " \o Remap(rec.name)
                                   \o " (" \o rec.id \o ")")
            /\ annotations' = annotations
            /\ axioms' = Append(axioms, Declaration("NamedIndividual", rec.id))
            /\ terms' = terms
            /\ unhandled_xref_prefixes' = unhandled_xref_prefixes
            /\ pc' = "loop" /\ i' = i + 1 /\ raised' = "none" ]_vars

\* C3, witness.  A record with a malformed name and with cities, relationships, aliases,
\* acronyms and external identifiers was passed over, and so was the record
\* after it.
C3_Witness ==
    \E k \in 1..Completed :
        /\ ~OrgConstructs(records[k])
        /\ records[k].addresses # <<>> /\ records[k].relationships # <<>>
        /\ records[k].aliases # <<>> /\ records[k].acronyms # <<>>
        /\ records[k].external_ids # <<>>
        /\ k < Completed
        /\ OrgConstructs(records[k + 1])
        /\ pc = "done"

(***************************************************************************)
(* C4.  As claimed: in a pass that gets past the organization and whose    *)
(* relationship labels are all known, a city whose label cannot be         *)
(* constructed is reported and given no assertion, every other city gets   *)
(* its three, the organization's label and class assertion stand, and the  *)
(* pass goes on through the relationships, aliases, acronyms and external  *)
(* identifiers to the next record.                                         *)
(***************************************************************************)
C4_AnyCityFailureContained ==
    [][ (InLoopBody /\ OrgConstructs(rec) /\ RelsRecognized(rec)
            /\ HasFailingCity(rec))
        => CityFailuresContained ]_vars

\* C4, the part the code keeps: the same, for the records none of whose
\* cities raises TypeError.
C4_AssertionErrorContained ==
    [][ (InLoopBody /\ OrgConstructs(rec) /\ RelsRecognized(rec)
            /\ HasFailingCity(rec) /\ ~CityRaisesTypeError(rec))
        => CityFailuresContained ]_vars

(***************************************************************************)
(* C5.  In a pass that gets as far as the aliases of a record with a       *)
(* malformed alias or acronym: every malformed one is reported, the        *)
(* synonym facts appended are those of the well-formed aliases, in order,  *)
(* and likewise for the acronyms, the cross-references are all appended,   *)
(* and the loop goes on.                                                   *)
(***************************************************************************)
C5_SynonymFailureSkipsOnlyThatFact ==
    [][ (InLoopBody /\ ReachesSynonyms(rec)
            /\ (Good(rec.aliases) # rec.aliases \/ Good(rec.acronyms) # rec.acronyms))
        =>
        LET BadSynonymLine(line) == StartsWith(line, "bad synonym for ")
            BadAcronymLine(line) == StartsWith(line, "bad acronym for ")
        IN  /\ SelectSeq(NewAnnotations, IsSynonym)
                  = SynonymFacts(rec.id, Good(rec.aliases))
            /\ SelectSeq(NewAnnotations, IsAcronym)
                  = AcronymFacts(rec.id, Good(rec.acronyms))
            /\ \A k \in DOMAIN rec.aliases :
                  ~WellFormed(rec.aliases[k]) =>
                      Occurs(NewLog, "bad synonym for " \o Remap(rec.name) \o " ("
                                      \o rec.id \o "): " \o rec.aliases[k])
            /\ \A k \in DOMAIN rec.acronyms :
                  ~WellFormed(rec.acronyms[k]) =>
                      Occurs(NewLog, "bad acronym for " \o Remap(rec.name) \o " ("
                                      \o rec.id \o "): " \o rec.acronyms[k])
            /\ Len(SelectSeq(NewLog, BadSynonymLine))
                  = Len(rec.aliases) - Len(Good(rec.aliases))
            /\ Len(SelectSeq(NewLog, BadAcronymLine))
                  = Len(rec.acronyms) - Len(Good(rec.acronyms))
            /\ SelectSeq(NewAnnotations, IsXref)
                  = ExpectedXrefs(rec.id, rec.external_ids)
            /\ pc' = "loop" /\ i' = i + 1 /\ raised' = "none" ]_vars

\* C5, witness.  A record whose first and third alias are malformed has been passed: both
\* were reported and the well-formed aliases after them are in the document.
C5_Witness ==
    \E k \in 1..Completed :
        /\ ReachesSynonyms(records[k])
        /\ Len(records[k].aliases) = 4 /\ Len(Good(records[k].aliases)) = 2
        /\ ~WellFormed(records[k].aliases[1])
        /\ Occurs(log, "bad synonym for " \o Remap(records[k].name) \o " ("
                        \o records[k].id \o "): " \o records[k].aliases[1])
        /\ Occurs(annotations,
                  AnnotationAssertion(HasExactSynonym, records[k].id,
                                      records[k].aliases[4], <<>>))
        /\ pc = "done"

(***************************************************************************)
(* C6.  As claimed: a run over records all of whose relationship labels    *)
(* are among the five never ends in an exception, so it goes on to write   *)
(* the document.                                                           *)
(***************************************************************************)
C6_RecognizedLabelsRunWrites ==
    (\A k \in DOMAIN records : RelsRecognized(records[k]))
        => (pc # "aborted" /\ raised = "none")

(***************************************************************************)
(* C7.  For every organization id, the label assertions for it number the  *)
(* passes begun over a record with that id and a well-formed name, and so  *)
(* do the class assertions: one of each per pass, two after two passes     *)
(* over the same record.                                                   *)
(***************************************************************************)
C7_OneLabelAndClassPerPass ==
    \A n \in DOMAIN records :
        LET uri == records[n].id
            passes == {k \in 1..Started :
                          records[k].id = uri /\ OrgConstructs(records[k])}
            IsLabel(a) == a.ax = "AnnotationAssertion" /\ a.property = RDFS_label
                              /\ a.subject = uri
            IsClass(a) == a.ax = "ClassAssertion" /\ a.individual = uri
        IN  /\ Len(SelectSeq(annotations, IsLabel)) = Cardinality(passes)
            /\ Len(SelectSeq(annotations, IsClass)) = Cardinality(passes)
            /\ \A k \in DOMAIN annotations :
                  IsClass(annotations[k]) => annotations[k].class = ORG_CLASS
            /\ \A k \in passes :
                  Occurs(annotations,
                         AnnotationAssertion(RDFS_label, uri,
                                             Remap(records[k].name), <<>>))

\* C7, witness.  The same record, well-formed, was passed twice: two labels, two class
\* assertions.
C7_Witness ==
    /\ pc = "done"
    /\ Len(records) >= 2
    /\ records[1] = records[2]
    /\ OrgConstructs(records[1])
    /\ LET IsLabel(a) == a = AnnotationAssertion(RDFS_label, records[1].id,
                                                 Remap(records[1].name), <<>>)
           IsClass(a) == a = ClassAssertion(ORG_CLASS, records[1].id)
       IN  Len(SelectSeq(annotations, IsLabel)) = 2 /\ Len(SelectSeq(annotations, IsClass)) = 2

(***************************************************************************)
(* C8.  In a pass that gets as far as the external identifiers, the        *)
(* cross-references appended are one per raw identifier of each resolvable *)
(* scheme but OrgRef, in order, a bare string counting as one identifier   *)
(* and a repeated identifier as often as it is repeated.                   *)
(***************************************************************************)
C8_OneXrefPerRawIdentifier ==
    [][ (InLoopBody /\ ReachesSynonyms(rec)) =>
            SelectSeq(NewAnnotations, IsXref)
                = ExpectedXrefs(rec.id, rec.external_ids) ]_vars

\* C8, witness.  Passed: a record whose ISNI is a bare string, with its one
\* cross-reference, and a record with a repeated GRID identifier, with two.
C8_Witness ==
    /\ \E k \in 1..Completed :
          /\ ReachesSynonyms(records[k])
          /\ records[k].external_ids = BaseExternalIds
          /\ LET IsIt(a) == IsXref(a) /\ a.subject = records[k].id
                                /\ StartsWith(a.value, "isni:")
             IN  Len(SelectSeq(annotations, IsIt)) = 1
    /\ \E k \in 1..Completed :
          /\ ReachesSynonyms(records[k])
          /\ \E e \in DOMAIN records[k].external_ids :
                records[k].external_ids[e] = <<"GRID", IdList(<<"grid.1", "grid.1">>)>>
          /\ LET IsIt(a) == a = AnnotationAssertion(HasDbXref, records[k].id,
                                                    "grid:grid.1", <<>>)
             IN  Len(SelectSeq(annotations, IsIt)) = 2

(***************************************************************************)
(* C9.  As claimed: every cross-reference in the document is, for a raw    *)
(* identifier of a resolvable scheme of a record whose pass has begun, the *)
(* normalized prefix, ":" and the raw identifier less all its whitespace,  *)
(* and so holds no whitespace character.                                   *)
(***************************************************************************)
C9_XrefHasNoWhitespace == XrefsAreJoinsLess(Whitespace)

\* C9, amended: every cross-reference in the document is, for a raw
\* identifier of a resolvable scheme of a record whose pass has begun, the
\* normalized prefix, ":" and the raw identifier less all its space
\* characters (U+0020), and so holds no space character.
C9_XrefHasNoSpace == XrefsAreJoinsLess({" "})

\* C9, witness.  The ISNI "0000 0001 2345 6789" is in the document as
\* isni:0000000123456789.
C9_Witness ==
    \E k \in 1..Completed :
        /\ records[k].external_ids = BaseExternalIds
        /\ Occurs(annotations,
                  AnnotationAssertion(HasDbXref, records[k].id,
                                      "isni:0000000123456789", <<>>))

(***************************************************************************)
(* C10.  Every step leaves what ontology.annotations and ontology.axioms   *)
(* held as a prefix of what they hold after it, and once the header is set *)
(* its six entries head ontology.annotations.                              *)
(***************************************************************************)
C10_AppendOnly ==
    [][ /\ IsPrefixOf(annotations, annotations')
        /\ IsPrefixOf(axioms, axioms')
        /\ pc' # "header" => IsPrefixOf(HeaderAnnotations, annotations') ]_vars

\* C10, witness.  The run is over, a pass reported a failure, and assertions were appended
\* to the header and the vocabulary.
C10_Witness ==
    /\ pc = "done"
    /\ log # <<>>
    /\ Len(annotations) > Len(HeaderAnnotations) + Len(VocabularyLabels)
    /\ Len(axioms) > Len(VocabularyDeclarations)
====
